---- MODULE Spec2Model ----
(***************************************************************************)
(* A model of the Strands research runner: runner.run (runner.py), the     *)
(* orchestration in ResearchAgent (agent.py) and the five tools it calls   *)
(* (tools/prices.py, ratios.py, news.py, edgar.py, peers.py).              *)
(*                                                                         *)
(* Three specifications share the state:                                   *)
(*   Spec       runner.run from its first line: Settings.load,             *)
(*              ensure_directories, _create_model and the construction of  *)
(*              ResearchAgent (runner.py:61-66, agent.py:57-91).           *)
(*   AgentSpec  runner.py:68-89 together with ResearchAgent.run, for an    *)
(*              agent object whose five tool objects exist: the tool       *)
(*              invocations of _gather_for_ticker, the assembly of the     *)
(*              record, the except clause and the persistence of the       *)
(*              artifacts.                                                 *)
(*   ToolSpec   the functions of the tools invoked on their own, each on   *)
(*              any argument of a bounded family: PricesTool.fetch,        *)
(*              RatiosTool.compute (_sma, _rsi), _naive_sentiment and      *)
(*              _extract_item7_section.                                    *)
(* ResearchAgent.__init__ as written cannot finish (see ConstructAgent),   *)
(* so the states of AgentSpec are those of a ResearchAgent whose           *)
(* _tool_objects were built all the same; they are not reached from Init.  *)
(*                                                                         *)
(* What lies outside the sources is taken as follows.  The Strands tool    *)
(* caller (agent.tool.<name>) hands back what the decorated function       *)
(* returns and lets an exception of the backend through.  httpx and        *)
(* yfinance are installed.  The upstream services answer as they please:   *)
(* each answer is chosen when the request is made.                         *)
(*                                                                         *)
(* Money is counted in hundredths (10300 is 103.00), and so are the        *)
(* ratios that the code rounds to two decimals.                            *)
(***************************************************************************)
EXTENDS Integers, Sequences, FiniteSets, TLC

VARIABLES
    env,              \* the process environment read by Settings.load and _create_model
    tickers,          \* runner.run's argument `tickers`, as requested
    collect_failures, \* runner.run's argument `collect_failures`
    focus,            \* runner.run's argument `focus`
    hosted,           \* whether the hosted model answers structured_output requests
    pc,               \* position in runner.run / ResearchAgent.run
    settings,         \* the Settings object (NoSettings before Settings.load)
    raised,           \* the exception in flight or that ended the run ("none")
    outcome,          \* "running", "returned", "raised"
    idx,              \* index of the ticker the for loop of agent.run is at
    canon,            \* agent.run's local `tickers` (uppercased)
    cur,              \* the locals of _gather_for_ticker filled so far
    ticker_payloads,  \* agent.run's local list of records
    calls,            \* every tool invocation made through _invoke_tool, in order
    http,             \* outbound requests issued by the latest tool invocation
    artifacts,        \* the RunArtifacts value agent.run returned (NoArtifacts before)
    model,            \* runner.run's local `model` ("none" before _create_model)
    files,            \* the directories and files the run has created
    invoked,          \* the function a caller invoked on its own, with its argument
    returned          \* what that function returned (or the exception it raised)

vars == <<invoked, returned, env, tickers, collect_failures, focus, hosted, pc, settings, raised, outcome, idx,
          canon, cur, ticker_payloads, calls, http, artifacts, model, files>>

(***************************************************************************)
(* Bounds of the model.                                                    *)
(***************************************************************************)
MaxBatch == 3

RawTickers == {"amzn", "PLTR"}

Batches == UNION {[1..n -> RawTickers] : n \in 0..MaxBatch}

(***************************************************************************)
(* Small helpers.                                                          *)
(***************************************************************************)
RECURSIVE SumSeq(_)
SumSeq(s) == IF s = <<>> THEN 0 ELSE Head(s) + SumSeq(Tail(s))

MaxOf(s) == CHOOSE x \in {s[i] : i \in DOMAIN s} : \A j \in DOMAIN s : s[j] <= x

MinOf(s) == CHOOSE x \in {s[i] : i \in DOMAIN s} : \A j \in DOMAIN s : x <= s[j]

\* s[-k:] of Python
LastN(s, k) == IF Len(s) <= k THEN s ELSE SubSeq(s, Len(s) - k + 1, Len(s))

\* round(n / d) to the nearest integer, ties to even (Python's round)
RoundDiv(n, d) ==
    LET q == n \div d
        r == n % d
    IN  IF 2 * r < d THEN q
        ELSE IF 2 * r > d THEN q + 1
        ELSE IF q % 2 = 0 THEN q ELSE q + 1

\* dict.get(key, default) on a record
Get(rec, key, default) == IF key \in DOMAIN rec THEN rec[key] ELSE default

\* str.upper() on the requested symbols
Upper(t) == CASE t = "amzn" -> "AMZN"
              [] t = "pltr" -> "PLTR"
              [] OTHER -> t

NoPayload == [none |-> TRUE]

NoSettings == [loaded |-> FALSE]

\* no function has been invoked on its own
NoCall == [fn |-> "none"]

\* what a tool call hands back: a payload, or the exception it raised
Ok(p, reqs) == [raised |-> "none", payload |-> p, http |-> reqs]

Raise(kind, reqs) == [raised |-> kind, payload |-> NoPayload, http |-> reqs]

(***************************************************************************)
(* tools/prices.py.  `frame` is what yfinance returned for the ticker: the  *)
(* closes in ascending date order (empty when the feed has no data).       *)
(* Settings.load always sets use_fixtures to False (settings.py:49), so    *)
(* the fixture branch of fetch is never taken.                             *)
(***************************************************************************)
TailRows == 90

AvgWindow == 30

YahooRequest(ticker, frame) == [url |-> "yfinance", status |-> "200", body |-> frame]

DownloadHistory(ticker, frame) ==
    IF frame = <<>>
    THEN Raise("ValueError", <<YahooRequest(ticker, frame)>>)
    ELSE Ok(LastN(frame, TailRows), <<YahooRequest(ticker, frame)>>)

\* a variant that averages every close of the history
PricesFetchAverageAll(ticker, frame) ==
    LET t == Upper(ticker)
        got == DownloadHistory(t, frame)
        closes == got.payload
        latest_close == closes[Len(closes)]
    IN  IF got.raised # "none" THEN got
        ELSE Ok([ticker |-> t,
                 currency |-> "USD",
                 history |-> closes,
                 fifty_two_week_high |-> MaxOf(closes),
                 fifty_two_week_low |-> MinOf(closes),
                 latest_close |-> latest_close,
                 avg_close_30d |->
                     IF Len(closes) >= AvgWindow
                     THEN RoundDiv(SumSeq(closes), Len(closes))
                     ELSE latest_close],
                got.http)

PricesFetch(ticker, frame) ==
    LET t == Upper(ticker)
        got == DownloadHistory(t, frame)
        closes == got.payload
        latest_close == closes[Len(closes)]
    IN  IF got.raised # "none" THEN got
        ELSE Ok([ticker |-> t,
                 currency |-> "USD",
                 history |-> closes,
                 fifty_two_week_high |-> MaxOf(closes),
                 fifty_two_week_low |-> MinOf(closes),
                 latest_close |-> latest_close,
                 avg_close_30d |->
                     IF Len(closes) >= AvgWindow
                     THEN RoundDiv(SumSeq(LastN(closes, AvgWindow)), AvgWindow)
                     ELSE latest_close],
                got.http)

(***************************************************************************)
(* tools/ratios.py                                                         *)
(***************************************************************************)
RsiPeriod == 14

Sma(values) ==
    IF values = <<>> THEN 0 ELSE RoundDiv(SumSeq(values), Len(values))

\* the changes prices[-i] - prices[-i-1] for i = 1..period
Changes(prices, period) ==
    [i \in 1..period |-> prices[Len(prices) - i + 1] - prices[Len(prices) - i]]

\* a variant that takes every change of the series, not the last `period`
RsiOverWholeSeries(prices, period) ==
    IF Len(prices) < period + 1 THEN 5000
    ELSE LET ch == Changes(prices, Len(prices) - 1)
             gain == SumSeq([i \in DOMAIN ch |-> IF ch[i] >= 0 THEN ch[i] ELSE 0])
             loss == SumSeq([i \in DOMAIN ch |-> IF ch[i] < 0 THEN 0 - ch[i] ELSE 0])
         IN  IF loss = 0 THEN 10000
             ELSE RoundDiv(10000 * gain, gain + loss)

\* a variant that computes from the changes there are when the series is short
RsiWithoutFloor(prices, period) ==
    IF Len(prices) < 2 THEN 5000
    ELSE LET ch == Changes(prices, IF Len(prices) > period THEN period ELSE Len(prices) - 1)
             gain == SumSeq([i \in DOMAIN ch |-> IF ch[i] >= 0 THEN ch[i] ELSE 0])
             loss == SumSeq([i \in DOMAIN ch |-> IF ch[i] < 0 THEN 0 - ch[i] ELSE 0])
         IN  IF loss = 0 THEN 10000
             ELSE RoundDiv(10000 * gain, gain + loss)

Rsi(prices, period) ==
    IF Len(prices) < period + 1 THEN 5000
    ELSE LET ch == Changes(prices, period)
             gain == SumSeq([i \in 1..period |-> IF ch[i] >= 0 THEN ch[i] ELSE 0])
             loss == SumSeq([i \in 1..period |-> IF ch[i] < 0 THEN 0 - ch[i] ELSE 0])
         IN  IF loss = 0 THEN 10000
             ELSE RoundDiv(10000 * gain, gain + loss)

\* a variant that averages the whole series
RatiosComputeWholeSeries(price_payload) ==
    LET closes == Get(price_payload, "history", <<>>)
    IN  Ok([sma20 |-> Sma(closes),
            sma50 |-> Sma(closes),
            rsi14 |-> Rsi(closes, RsiPeriod),
            latest_close |-> IF closes # <<>> THEN closes[Len(closes)] ELSE 0],
           <<>>)

RatiosCompute(price_payload) ==
    LET closes == Get(price_payload, "history", <<>>)
    IN  Ok([sma20 |-> Sma(LastN(closes, 20)),
            sma50 |-> Sma(LastN(closes, 50)),
            rsi14 |-> Rsi(closes, RsiPeriod),
            latest_close |-> IF closes # <<>> THEN closes[Len(closes)] ELSE 0],
           <<>>)

(***************************************************************************)
(* tools/peers.py                                                          *)
(***************************************************************************)
PeerMap(t) == CASE t = "AMZN" -> <<"MSFT", "GOOGL", "WMT">>
                [] t = "MSFT" -> <<"GOOGL", "AMZN", "AAPL">>
                [] t = "SNOW" -> <<"DDOG", "MDB", "NOW">>
                [] OTHER -> <<>>

PeersFetch(ticker) ==
    LET t == Upper(ticker) IN Ok([ticker |-> t, peers |-> PeerMap(t)], <<>>)

(***************************************************************************)
(* Outbound HTTP as the tools use it: one client.get per request followed  *)
(* by raise_for_status (edgar.py:54-60, 115-116, news.py:44-46, 73-75).    *)
(* A transport error is raised by client.get itself; 4xx and 5xx are       *)
(* raised by raise_for_status.                                             *)
(***************************************************************************)
HttpStatuses == {"200", "404", "503", "transport"}

Transient(status) == status \in {"429", "503", "transport"}

HttpError(status) ==
    IF status = "transport" THEN "TransportError" ELSE "HTTPStatusError"

\* the requests one call of client.get(url) issues for an upstream that
\* answers `status` (with `body` when the status is 200): the tools issue the
\* request once, whatever the answer
ClientGet(url, status, body) == <<[url |-> url, status |-> status, body |-> body]>>

(***************************************************************************)
(* tools/news.py                                                           *)
(* An upstream article is written with the field names of NewsAPI; the     *)
(* GDELT branch reads seendescription, seendate and sourcecommonname into  *)
(* the same fields of the result.                                          *)
(***************************************************************************)
PositiveWords == <<"growth", "beat", "win", "strong">>

NegativeWords == <<"risk", "concern", "loss", "slow">>

UpperLetters == "ABCDEFGHIJKLMNOPQRSTUVWXYZ"

LowerLetters == "abcdefghijklmnopqrstuvwxyz"

LowerChar(c) ==
    IF \E k \in 1..26 : SubSeq(UpperLetters, k, k) = c
    THEN LET k == CHOOSE k \in 1..26 : SubSeq(UpperLetters, k, k) = c
         IN  SubSeq(LowerLetters, k, k)
    ELSE c

\* str.lower()
RECURSIVE Lower(_)
Lower(s) ==
    IF s = "" THEN ""
    ELSE LowerChar(SubSeq(s, 1, 1)) \o Lower(SubSeq(s, 2, Len(s)))

\* str.count(word): the occurrences of word in text that do not overlap,
\* found from the left
RECURSIVE StrCount(_, _)
StrCount(text, word) ==
    LET at == {i \in 1..(Len(text) - Len(word) + 1) :
                  SubSeq(text, i, i + Len(word) - 1) = word}
    IN  IF at = {} THEN 0
        ELSE LET i == CHOOSE i \in at : \A j \in at : i <= j
             IN  1 + StrCount(SubSeq(text, i + Len(word), Len(text)), word)

\* a variant that counts in the text as given
NaiveSentimentCaseSensitive(text) ==
    LET positive == SumSeq([k \in DOMAIN PositiveWords |-> StrCount(text, PositiveWords[k])])
        negative == SumSeq([k \in DOMAIN NegativeWords |-> StrCount(text, NegativeWords[k])])
        total == positive + negative
    IN  IF positive = negative THEN 0
        ELSE IF total = 0 THEN 0
        ELSE RoundDiv(100 * (positive - negative), total)

\* the score in hundredths
NaiveSentiment(text) ==
    LET lowered == Lower(text)
        positive == SumSeq([k \in DOMAIN PositiveWords |-> StrCount(lowered, PositiveWords[k])])
        negative == SumSeq([k \in DOMAIN NegativeWords |-> StrCount(lowered, NegativeWords[k])])
        total == positive + negative
    IN  IF positive = negative THEN 0
        ELSE IF total = 0 THEN 0
        ELSE RoundDiv(100 * (positive - negative), total)

NewsArticle(a) ==
    [title |-> a.title,
     summary |-> a.description,
     url |-> a.url,
     published_at |-> a.publishedAt,
     sentiment |-> NaiveSentiment(a.description),
     source |-> a.source]

NewsUrl(news_token) ==
    IF news_token THEN "newsapi.org/v2/everything" ELSE "api.gdeltproject.org/api/v2/doc/doc"

\* fetch -> _fetch_newsapi_headlines / _fetch_gdelt_headlines
NewsFetch(news_token, ticker, up) ==
    LET t == Upper(ticker)
        reqs == ClientGet(NewsUrl(news_token), up.status, up.articles)
    IN  IF up.status # "200" THEN Raise(HttpError(up.status), reqs)
        ELSE Ok([ticker |-> t,
                 articles |-> [i \in DOMAIN up.articles |-> NewsArticle(up.articles[i])]],
                reqs)

UpArticle1 ==
    [title |-> "Cloud unit posts record quarter", description |-> "Strong growth in cloud",
     url |-> "https://news.example/1", publishedAt |-> "2024-05-02", source |-> "Wire"]

UpArticle2 ==
    [title |-> "Regulators open inquiry", description |-> "Risk of loss",
     url |-> "https://news.example/2", publishedAt |-> "2024-05-01", source |-> "Daily"]

NewsUpstreams ==
    {[status |-> "200", articles |-> <<>>],
     [status |-> "200", articles |-> <<UpArticle1, UpArticle2>>]}
    \cup {[status |-> st, articles |-> <<>>] : st \in HttpStatuses \ {"200"}}

(***************************************************************************)
(* tools/edgar.py.  A filing document is the sequence of the sibling       *)
(* blocks of its body; a block is                                          *)
(*   "bold7"  a block whose text matches Item 7. and is bold or uppercase  *)
(*   "plain7" a block whose text matches Item 7. and is neither            *)
(*   "text"   any other text                                               *)
(*   "blank"  whitespace only                                              *)
(*   "stop"   a block whose text matches Item 7A. or Item 8.               *)
(* The text of a block is the string the parser holds for it, with the     *)
(* whitespace the document has around and inside it.                       *)
(***************************************************************************)
MaxSectionChars == 4000

Unable == "Unable to extract Item 7 management discussion from the filing."

\* the whitespace characters of the documents
IsSpace(c) == c \in {" ", "\n", "\t"}

\* s[i-1] of Python
Ch(s, i) == SubSeq(s, i, i)

\* str.strip()
Strip(s) ==
    IF \A i \in 1..Len(s) : IsSpace(Ch(s, i)) THEN ""
    ELSE LET first == CHOOSE i \in 1..Len(s) :
                          ~IsSpace(Ch(s, i)) /\ \A j \in 1..(i - 1) : IsSpace(Ch(s, j))
             last == CHOOSE i \in 1..Len(s) :
                         ~IsSpace(Ch(s, i)) /\ \A j \in (i + 1)..Len(s) : IsSpace(Ch(s, j))
         IN  SubSeq(s, first, last)

\* re.sub(r"\s+", " ", s): every run of whitespace becomes one space
RECURSIVE CollapseSpace(_)
CollapseSpace(s) ==
    LET ws == {i \in 1..Len(s) : IsSpace(Ch(s, i))}
    IN  IF ws = {} THEN s
        ELSE LET a == CHOOSE i \in ws : \A j \in ws : i <= j
                 b == CHOOSE k \in a..Len(s) :
                          (\A j \in a..k : j \in ws) /\ (k + 1) \notin ws
             IN  SubSeq(s, 1, a - 1) \o " " \o CollapseSpace(SubSeq(s, b + 1, Len(s)))

\* s[:n] of Python
Prefix(s, n) == IF Len(s) <= n THEN s ELSE SubSeq(s, 1, n)

RECURSIVE JoinSpace(_)
JoinSpace(chunks) ==
    IF chunks = <<>> THEN ""
    ELSE IF Len(chunks) = 1 THEN chunks[1]
    ELSE chunks[1] \o " " \o JoinSpace(Tail(chunks))

\* the loop over container.next_siblings (edgar.py:167-178)
RECURSIVE CollectChunks(_, _)
CollectChunks(siblings, chunks) ==
    IF siblings = <<>> THEN chunks
    ELSE LET b == Head(siblings)
             text_block == Strip(b.text)
         IN  IF text_block = "" THEN CollectChunks(Tail(siblings), chunks)
             ELSE IF b.kind = "stop" THEN chunks
             ELSE IF Len(JoinSpace(Append(chunks, text_block))) >= MaxSectionChars
                  THEN Append(chunks, text_block)
                  ELSE CollectChunks(Tail(siblings), Append(chunks, text_block))

\* the heading: the first bold or uppercase match, else the last match of all
HeadingIndex(doc) ==
    LET bold == {i \in DOMAIN doc : doc[i].kind = "bold7"}
        any == {i \in DOMAIN doc : doc[i].kind \in {"bold7", "plain7"}}
    IN  IF bold # {} THEN CHOOSE i \in bold : \A j \in bold : i <= j
        ELSE IF any # {} THEN CHOOSE i \in any : \A j \in any : j <= i
        ELSE 0

\* a variant that returns the capped text as it was cut
ExtractWithoutFinalStrip(doc) ==
    LET h == HeadingIndex(doc)
        chunks == CollectChunks(SubSeq(doc, h + 1, Len(doc)), <<>>)
        normalized == CollapseSpace(JoinSpace(chunks))
    IN  IF h = 0 THEN Unable
        ELSE IF chunks = <<>> THEN Unable
        ELSE Prefix(normalized, MaxSectionChars)

ExtractItem7Section(doc) ==
    LET h == HeadingIndex(doc)
        chunks == CollectChunks(SubSeq(doc, h + 1, Len(doc)), <<>>)
        normalized == CollapseSpace(JoinSpace(chunks))
    IN  IF h = 0 THEN Unable
        ELSE IF chunks = <<>> THEN Unable
        ELSE Strip(Prefix(normalized, MaxSectionChars))

FeedUrl == "https://www.sec.gov/cgi-bin/browse-edgar"

IndexUrl == "https://www.sec.gov/Archives/filing-index.htm"

DocumentUrl == "https://www.sec.gov/Archives/form10k.htm"

\* _fetch_live_html with _parse_feed and _locate_primary_document
FetchLiveHtml(sec_user_agent, ticker, up) ==
    LET r1 == ClientGet(FeedUrl, up.feed, <<>>)
        r2 == r1 \o ClientGet(IndexUrl, up.index, <<>>)
        r3 == r2 \o ClientGet(DocumentUrl, up.doc, up.document)
    IN  IF ~sec_user_agent THEN Raise("RuntimeError", <<>>)
        ELSE IF up.feed # "200" THEN Raise(HttpError(up.feed), r1)
        ELSE IF ~up.entry THEN Raise("ValueError", r1)
        ELSE IF up.index # "200" THEN Raise(HttpError(up.index), r2)
        ELSE IF ~up.link THEN Raise("ValueError", r2)
        ELSE IF up.doc # "200" THEN Raise(HttpError(up.doc), r3)
        ELSE Ok([ticker |-> ticker,
                 section |-> ExtractItem7Section(up.document),
                 source_url |-> DocumentUrl,
                 filed_on |-> up.filed,
                 filing_type |-> "10-K"],
                r3)

EdgarFetch(use_fixtures, sec_user_agent, ticker, up) ==
    LET t == Upper(ticker)
    IN  IF use_fixtures THEN Raise("RuntimeError", <<>>)
        ELSE IF ~sec_user_agent THEN Raise("RuntimeError", <<>>)
        ELSE FetchLiveHtml(sec_user_agent, t, up)

Blk(kind, text) == [kind |-> kind, text |-> text]

DocWithItem7 ==
    <<Blk("plain7", "Item 7. Management's Discussion ..... 31"),
      Blk("bold7", "ITEM 7. MANAGEMENT'S DISCUSSION AND ANALYSIS"),
      Blk("text", "Net sales increased 12% in the year."),
      Blk("blank", " \n "),
      Blk("text", "  Operating income\n improved. "),
      Blk("stop", "Item 7A. Quantitative and Qualitative Disclosures")>>

DocWithoutItem7 ==
    <<Blk("text", "Annual report"), Blk("text", "Risk factors are described below.")>>

Documents == {DocWithItem7, DocWithoutItem7}

EdgarUp(feed, entry, index, link, doc, document) ==
    [feed |-> feed, entry |-> entry, index |-> index, link |-> link, doc |-> doc,
     document |-> document, filed |-> "2024-02-02"]

\* what the three SEC endpoints can answer; a request that is never issued
\* (an earlier one failed) has no answer to choose
EdgarUpstreams ==
    {EdgarUp(st, FALSE, "200", FALSE, "200", <<>>) : st \in HttpStatuses \ {"200"}}
    \cup {EdgarUp("200", FALSE, "200", FALSE, "200", <<>>)}
    \cup {EdgarUp("200", TRUE, st, FALSE, "200", <<>>) : st \in HttpStatuses \ {"200"}}
    \cup {EdgarUp("200", TRUE, "200", FALSE, "200", <<>>)}
    \cup {EdgarUp("200", TRUE, "200", TRUE, st, <<>>) : st \in HttpStatuses \ {"200"}}
    \cup {EdgarUp("200", TRUE, "200", TRUE, "200", d) : d \in Documents}

(***************************************************************************)
(* tools/base.py: the tool response envelope and its reading.              *)
(***************************************************************************)
\* Python values as json.loads builds them; the texts hold no escape
\* sequences, fractions or exponents
PyNone == [kind |-> "None", val |-> "None"]

PyBool(b) == [kind |-> "bool", val |-> b]

PyInt(n) == [kind |-> "int", val |-> n]

PyStr(text) == [kind |-> "str", val |-> text]

PyList(items) == [kind |-> "list", val |-> items]

\* a dict: its items, <<key, value>>, in insertion order
PyDict(items) == [kind |-> "dict", val |-> items]

\* what a step of the decoder gives: a value and the place after it, or a failure
Parsed(value, next) == [ok |-> TRUE, val |-> value, next |-> next]

ParseFail == [ok |-> FALSE, val |-> PyNone, next |-> 0]

JsonSpace(c) == c \in {" ", "\t", "\n", "\r"}

Digits == "0123456789"

IsDigit(c) == \E k \in 1..10 : SubSeq(Digits, k, k) = c

DigitVal(c) == (CHOOSE k \in 1..10 : SubSeq(Digits, k, k) = c) - 1

\* the character at place i, "" past the end
At(s, i) == IF i >= 1 /\ i <= Len(s) THEN SubSeq(s, i, i) ELSE ""

\* the word w stands at place i
StandsAt(s, i, w) == i + Len(w) - 1 <= Len(s) /\ SubSeq(s, i, i + Len(w) - 1) = w

\* the first place from i on that holds no whitespace
SkipSpace(s, i) ==
    CHOOSE j \in i..(Len(s) + 1) :
        ~JsonSpace(At(s, j)) /\ \A k \in i..(j - 1) : JsonSpace(At(s, k))

RECURSIVE IntOf(_)
IntOf(digits) ==
    IF digits = "" THEN 0
    ELSE 10 * IntOf(SubSeq(digits, 1, Len(digits) - 1)) + DigitVal(At(digits, Len(digits)))

\* the end of the digits of a number whose first digit stands at d
NumberEnd(s, d) ==
    IF At(s, d) = "0" THEN d + 1
    ELSE CHOOSE j \in d..(Len(s) + 1) :
             ~IsDigit(At(s, j)) /\ \A k \in d..(j - 1) : IsDigit(At(s, k))

\* the digits from d to before end, with their sign
Number(s, d, end, sign) ==
    IF ~IsDigit(At(s, d)) THEN ParseFail
    ELSE Parsed(PyInt(sign * IntOf(SubSeq(s, d, end - 1))), end)

\* -?(0|[1-9][0-9]*)
ParseNumber(s, i) ==
    IF At(s, i) = "-" THEN Number(s, i + 1, NumberEnd(s, i + 1), -1)
    ELSE Number(s, i, NumberEnd(s, i), 1)

\* the places of the quotes after place i
Quotes(s, i) == {j \in (i + 1)..Len(s) : At(s, j) = "\""}

StringUpTo(s, i, close) ==
    IF At(s, i) # "\"" \/ close = {} THEN ParseFail
    ELSE Parsed(PyStr(SubSeq(s, i + 1, (CHOOSE j \in close : \A k \in close : j <= k) - 1)),
                (CHOOSE j \in close : \A k \in close : j <= k) + 1)

\* a string: from the quote at i to the next quote
ParseString(s, i) == StringUpTo(s, i, Quotes(s, i))

\* dict[key] = value: a key that is there keeps its place
SetItem(items, key, value) ==
    IF \E k \in DOMAIN items : items[k][1] = key
    THEN [k \in DOMAIN items |-> IF items[k][1] = key THEN <<key, value>> ELSE items[k]]
    ELSE Append(items, <<key, value>>)

RECURSIVE ParseValue(_, _), ParseElements(_, _, _), ParseMembers(_, _, _)
\* after an element: a comma and more elements, or the end of the array
ElementsNext(s, after, items) ==
    IF At(s, after) = "," THEN ParseElements(s, after + 1, items)
    ELSE IF At(s, after) = "]" THEN Parsed(PyList(items), after + 1)
    ELSE ParseFail

ElementsAfter(s, v, acc) ==
    IF ~v.ok THEN ParseFail
    ELSE ElementsNext(s, SkipSpace(s, v.next), Append(acc, v.val))

\* the elements of an array from place i on, after those in acc
ParseElements(s, i, acc) == ElementsAfter(s, ParseValue(s, SkipSpace(s, i)), acc)

\* after a member: a comma and more members, or the end of the object
MembersNext(s, after, items) ==
    IF At(s, after) = "," THEN ParseMembers(s, after + 1, items)
    ELSE IF At(s, after) = "}" THEN Parsed(PyDict(items), after + 1)
    ELSE ParseFail

MembersAfterValue(s, key, v, acc) ==
    IF ~v.ok THEN ParseFail
    ELSE MembersNext(s, SkipSpace(s, v.next), SetItem(acc, key, v.val))

MembersAfterColon(s, key, colon, acc) ==
    IF At(s, colon) # ":" THEN ParseFail
    ELSE MembersAfterValue(s, key, ParseValue(s, SkipSpace(s, colon + 1)), acc)

MembersAfterKey(s, key, acc) ==
    IF ~key.ok THEN ParseFail
    ELSE MembersAfterColon(s, key.val.val, SkipSpace(s, key.next), acc)

\* the members of an object from place i on, after those in acc
ParseMembers(s, i, acc) == MembersAfterKey(s, ParseString(s, SkipSpace(s, i)), acc)

\* an array or an object whose first place after the bracket is `first`
Bracketed(s, first, close, empty, rest) ==
    IF At(s, first) = close THEN Parsed(empty, first + 1) ELSE rest

\* the value that starts at place i
ParseValue(s, i) ==
    IF At(s, i) = "\"" THEN ParseString(s, i)
    ELSE IF At(s, i) = "-" \/ IsDigit(At(s, i)) THEN ParseNumber(s, i)
    ELSE IF StandsAt(s, i, "null") THEN Parsed(PyNone, i + 4)
    ELSE IF StandsAt(s, i, "true") THEN Parsed(PyBool(TRUE), i + 4)
    ELSE IF StandsAt(s, i, "false") THEN Parsed(PyBool(FALSE), i + 5)
    ELSE IF At(s, i) = "["
         THEN Bracketed(s, SkipSpace(s, i + 1), "]", PyList(<<>>), ParseElements(s, i + 1, <<>>))
    ELSE IF At(s, i) = "{"
         THEN Bracketed(s, SkipSpace(s, i + 1), "}", PyDict(<<>>), ParseMembers(s, i + 1, <<>>))
    ELSE ParseFail

\* the document is the value and nothing but whitespace after it
Document(s, v) ==
    IF v.ok /\ SkipSpace(s, v.next) = Len(s) + 1 THEN Ok(v.val, <<>>)
    ELSE Raise("ValueError", <<>>)

\* json.loads(text): the value, or TypeError (text is no string) or
\* ValueError (text is no JSON document)
JsonLoads(text) ==
    IF text.kind # "str" THEN Raise("TypeError", <<>>)
    ELSE Document(text.val, ParseValue(text.val, SkipSpace(text.val, 1)))

JsonToolResponse(payload) ==
    [status |-> "success", content |-> <<[json |-> payload]>>]

\* a variant that hands back the text of a text block as it is
ExtractJsonContentRawText(tool_result, default) ==
    LET content == Get(tool_result, "content", <<>>)
        hits == {i \in DOMAIN content :
                    "json" \in DOMAIN content[i] \/ "text" \in DOMAIN content[i]}
        first == CHOOSE i \in hits : \A j \in hits : i <= j
    IN  IF hits = {}
        THEN IF default # PyNone THEN Ok(default, <<>>) ELSE Raise("ValueError", <<>>)
        ELSE IF "json" \in DOMAIN content[first]
             THEN Ok(content[first].json, <<>>)
             ELSE Ok(content[first].text, <<>>)

\* the try of extract_json_content (base.py:53-56)
DecodedOrText(text, decoded) ==
    IF decoded.raised \in {"TypeError", "ValueError"} THEN Ok(text, <<>>) ELSE decoded

\* what the block that decides gives
FromBlock(block) ==
    IF "json" \in DOMAIN block THEN Ok(block.json, <<>>)
    ELSE DecodedOrText(block.text, JsonLoads(block.text))

\* the blocks with a "json" or a "text" key
JsonOrText(content) ==
    {i \in DOMAIN content : "json" \in DOMAIN content[i] \/ "text" \in DOMAIN content[i]}

\* extract_json_content: the first block with a "json" or a "text" key
ExtractJsonContent(tool_result, default) ==
    LET content == Get(tool_result, "content", <<>>)
        hits == JsonOrText(content)
    IN  IF hits = {}
        THEN IF default # PyNone THEN Ok(default, <<>>) ELSE Raise("ValueError", <<>>)
        ELSE FromBlock(content[CHOOSE i \in hits : \A j \in hits : i <= j])

(***************************************************************************)
(* agent.py: ResearchAgent._invoke_tool.  `res` is what the tool's backend *)
(* did: the decorated tool wraps a payload with json_tool_response, and an *)
(* exception of the backend leaves _invoke_tool as it is (there is no      *)
(* except clause between the backend and runner.run).                      *)
(***************************************************************************)
NoArtifacts == [none |-> TRUE]

EmptyLocals ==
    [prices |-> NoPayload, ratios |-> NoPayload, news |-> NoPayload,
     edgar |-> NoPayload, peers |-> NoPayload]

\* what _invoke_tool hands on of what extract_json_content gave
Handed(got, reqs) == [raised |-> got.raised, payload |-> got.payload, http |-> reqs]

ToolResult(res) ==
    IF res.raised # "none" THEN res
    ELSE Handed(ExtractJsonContent(JsonToolResponse(res.payload), PyNone), res.http)

\* a variant that carries on with the next tool when the backend raised
InvokeToolContinues(name, arg, res, next) ==
    LET out == ToolResult(res) IN
    /\ calls' = Append(calls, [tool |-> name, pos |-> idx, arg |-> arg,
                               raised |-> out.raised, payload |-> out.payload])
    /\ http' = out.http
    /\ cur' = [cur EXCEPT ![name] = out.payload]
    /\ pc' = next
    /\ raised' = raised
    /\ UNCHANGED <<invoked, returned, env, tickers, collect_failures, focus, hosted, settings, outcome, idx,
                   canon, ticker_payloads, artifacts, model, files>>

InvokeTool(name, arg, res, next) ==
    LET out == ToolResult(res) IN
    /\ calls' = Append(calls, [tool |-> name, pos |-> idx, arg |-> arg,
                               raised |-> out.raised, payload |-> out.payload])
    /\ http' = out.http
    /\ IF out.raised = "none"
       THEN /\ cur' = [cur EXCEPT ![name] = out.payload]
            /\ pc' = next
            /\ raised' = raised
       ELSE /\ cur' = cur
            /\ pc' = "except"
            /\ raised' = out.raised
    /\ UNCHANGED <<invoked, returned, env, tickers, collect_failures, focus, hosted, settings, outcome, idx, canon,
                   ticker_payloads, artifacts, model, files>>

(***************************************************************************)
(* agent.py: ResearchAgent.run and _gather_for_ticker                      *)
(***************************************************************************)
PriceFrames == {<<>>, <<10000, 10200, 10100, 10500, 10300>>}

OutputDir == "runs/run_id/"

\* agent.py:94-101
AgentRunStart ==
    /\ pc = "agent_run"
    /\ canon' = [i \in DOMAIN tickers |-> Upper(tickers[i])]
    /\ files' = files \cup {OutputDir}
    /\ ticker_payloads' = <<>>
    /\ idx' = 1
    /\ cur' = EmptyLocals
    /\ pc' = "prices"
    /\ UNCHANGED <<invoked, returned, env, tickers, collect_failures, focus, hosted, settings, raised, outcome, calls,
                   http, artifacts, model>>

\* agent.py:117
InvokePrices ==
    /\ pc = "prices"
    /\ idx <= Len(canon)
    /\ \E frame \in PriceFrames :
          InvokeTool("prices", [ticker |-> canon[idx]],
                     PricesFetch(canon[idx], frame), "ratios")

\* a variant that computes the ratios from the gathered locals before the
\* price payload is stored in them
InvokeRatiosBeforePrices ==
    /\ pc = "ratios"
    /\ InvokeTool("ratios", [price_payload |-> EmptyLocals.prices],
                  RatiosCompute(EmptyLocals.prices), "news")

\* agent.py:118
InvokeRatios ==
    /\ pc = "ratios"
    /\ InvokeTool("ratios", [price_payload |-> cur.prices],
                  RatiosCompute(cur.prices), "news")

\* agent.py:119
InvokeNews ==
    /\ pc = "news"
    /\ \E up \in NewsUpstreams :
          InvokeTool("news", [ticker |-> canon[idx]],
                     NewsFetch(settings.news_token, canon[idx], up), "edgar")

\* agent.py:120
InvokeEdgar ==
    /\ pc = "edgar"
    /\ \E up \in EdgarUpstreams :
          InvokeTool("edgar", [ticker |-> canon[idx]],
                     EdgarFetch(settings.use_fixtures, settings.sec_user_agent,
                                canon[idx], up), "peers")

\* agent.py:121
InvokePeers ==
    /\ pc = "peers"
    /\ InvokeTool("peers", [ticker |-> canon[idx]], PeersFetch(canon[idx]), "assemble")

\* a variant that puts the entry of the filing before those of the articles
CitationsFilingFirst(ticker, articles, edgar_data, use_fixtures) ==
    <<[ticker |-> ticker,
       title |-> "Management discussion and analysis excerpt",
       url |-> IF use_fixtures THEN "fixtures/filing_item7.html"
               ELSE Get(edgar_data, "source_url", Get(edgar_data, "url", "None")),
       source |-> IF use_fixtures THEN "SEC Filing Fixture" ELSE "SEC EDGAR",
       published_at |-> Get(edgar_data, "filed_on", "")]>>
    \o [i \in DOMAIN articles |->
           [ticker |-> ticker,
            title |-> articles[i].title,
            url |-> articles[i].url,
            source |-> articles[i].source,
            published_at |-> articles[i].published_at]]

\* agent.py:128-153
Citations(ticker, articles, edgar_data, use_fixtures) ==
    [i \in DOMAIN articles |->
        [ticker |-> ticker,
         title |-> articles[i].title,
         url |-> articles[i].url,
         source |-> articles[i].source,
         published_at |-> articles[i].published_at]]
    \o <<[ticker |-> ticker,
          title |-> "Management discussion and analysis excerpt",
          url |-> IF use_fixtures THEN "fixtures/filing_item7.html"
                  ELSE Get(edgar_data, "source_url", Get(edgar_data, "url", "None")),
          source |-> IF use_fixtures THEN "SEC Filing Fixture" ELSE "SEC EDGAR",
          published_at |-> Get(edgar_data, "filed_on", "")]>>

\* _summarise_articles (agent.py:354-371)
SummariseArticles(articles) ==
    IF articles = <<>> THEN "Recent monitoring did not surface fresh red flags for the company."
    ELSE IF Get(articles[1], "sentiment", 0) >= 0
         THEN "Recent coverage surfaces favourable developments"
         ELSE "Recent coverage surfaces cautionary developments"

\* the sections built when the hosted model gives none (agent.py:167-181)
FallbackSections(price_data, ratio_data, edgar_data, positive, negative) ==
    [overview |-> "Shares trade at the latest close within the 52-week range.",
     moat |-> Get(edgar_data, "section", "Management commentary unavailable."),
     performance |-> "Latest close, SMA20, SMA50, RSI14.",
     catalysts |-> SummariseArticles(positive),
     risks |-> SummariseArticles(negative),
     valuation |-> "Trading below the 52-week high."]

\* what structured_output of the hosted model can give (agent.py:200-275):
\* a ResearchSections value, or nothing
HostedSections ==
    [overview |-> "hosted overview", moat |-> "hosted moat",
     performance |-> "hosted performance", catalysts |-> "hosted catalysts",
     risks |-> "hosted risks", valuation |-> "hosted valuation"]

\* agent.py:123-198
GatherRecord(ticker, locals, generated, use_fixtures, asked) ==
    LET articles == Get(locals.news, "articles", <<>>)
        sentiments == [i \in DOMAIN articles |-> Get(articles[i], "sentiment", 0)]
        avg_sentiment == IF articles # <<>> THEN RoundDiv(SumSeq(sentiments), Len(articles))
                         ELSE 0
        IsPos(a) == Get(a, "sentiment", 0) >= 0
        IsNeg(a) == Get(a, "sentiment", 0) < 0
        positive == SelectSeq(articles, IsPos)
        negative == SelectSeq(articles, IsNeg)
    IN  [ticker |-> ticker,
         prices |-> locals.prices,
         ratios |-> locals.ratios,
         news |-> locals.news,
         edgar |-> locals.edgar,
         peers |-> locals.peers,
         sentiment |-> [average |-> avg_sentiment, article_count |-> Len(articles)],
         sections |-> IF generated THEN HostedSections
                      ELSE FallbackSections(locals.prices, locals.ratios, locals.edgar,
                                            positive, negative),
         citations |-> Citations(ticker, articles, locals.edgar, use_fixtures),
         focus |-> asked]

\* a variant that puts the newest record first
PrependPayload(payloads, payload) == <<payload>> \o payloads

\* ticker_payloads.append(payload) (agent.py:105)
AppendPayload(payloads, payload) == Append(payloads, payload)

\* agent.py:103-106, the rest of one turn of the loop
AssembleRecord ==
    /\ pc = "assemble"
    /\ ticker_payloads' =
          AppendPayload(ticker_payloads,
                        GatherRecord(canon[idx], cur, hosted, settings.use_fixtures, focus))
    /\ idx' = idx + 1
    /\ cur' = EmptyLocals
    /\ pc' = "prices"
    /\ UNCHANGED <<invoked, returned, env, tickers, collect_failures, focus, hosted, settings, raised, outcome, canon,
                   calls, http, artifacts, model, files>>

\* the headings of the brief: markdown_sections (agent.py:101, 106, 113) with
\* _format_markdown_for_ticker cut down to its first line (agent.py:284)
Markdown(payloads) ==
    <<"# Research Brief">> \o [i \in DOMAIN payloads |-> "## " \o payloads[i].ticker]

\* agent.py:108-114
AgentReturn ==
    /\ pc = "prices"
    /\ idx > Len(canon)
    /\ artifacts' = [json_payload |-> [run_id |-> "run_id", tickers |-> ticker_payloads],
                     markdown |-> Markdown(ticker_payloads),
                     output_dir |-> OutputDir]
    /\ pc' = "after"
    /\ UNCHANGED <<invoked, returned, env, tickers, collect_failures, focus, hosted, settings, raised, outcome, idx,
                   canon, cur, ticker_payloads, calls, http, model, files>>

(***************************************************************************)
(* runner.py:68-89                                                         *)
(***************************************************************************)
\* what a ResearchAgent object has (agent.py:57-91 and the methods of the class)
AgentAttributes ==
    {"settings", "_tool_objects", "agent", "run", "_gather_for_ticker",
     "_generate_sections", "_format_markdown_for_ticker", "_invoke_tool",
     "_build_overview", "_build_performance", "_summarise_articles", "_build_valuation"}

\* the exception that leaves the except clause of runner.run (runner.py:70-74)
ExceptClause(exc, collecting) ==
    IF exc = "RuntimeError" /\ collecting
    THEN IF "failures" \notin AgentAttributes THEN "AttributeError"
         ELSE IF "failure_report" \notin AgentAttributes THEN "AttributeError"
         ELSE "SystemExit"
    ELSE exc

RunnerExcept ==
    /\ pc = "except"
    /\ raised' = ExceptClause(raised, collect_failures)
    /\ outcome' = "raised"
    /\ pc' = "done"
    /\ UNCHANGED <<invoked, returned, env, tickers, collect_failures, focus, hosted, settings, idx, canon, cur,
                   ticker_payloads, calls, http, artifacts, model, files>>

\* runner.py:76-78
RunnerReturnCollected ==
    /\ pc = "after"
    /\ collect_failures
    /\ outcome' = "returned"
    /\ pc' = "done"
    /\ UNCHANGED <<invoked, returned, env, tickers, collect_failures, focus, hosted, settings, raised, idx, canon, cur,
                   ticker_payloads, calls, http, artifacts, model, files>>

\* runner.py:80-89
RunnerPersist ==
    /\ pc = "after"
    /\ ~collect_failures
    /\ files' = files \cup {artifacts.output_dir \o "brief.json",
                            artifacts.output_dir \o "brief.md"}
    /\ outcome' = "returned"
    /\ pc' = "done"
    /\ UNCHANGED <<invoked, returned, env, tickers, collect_failures, focus, hosted, settings, raised, idx, canon, cur,
                   ticker_payloads, calls, http, artifacts, model>>

(***************************************************************************)
(* settings.py and runner.py:20-66: the start of runner.run                *)
(***************************************************************************)
FlagValues == {"unset", "1", " True ", "0"}

\* value.strip().lower() on the values of the flag
StripLower(v) == CASE v = " True " -> "true"
                   [] OTHER -> v

\* Settings.load._get_bool (settings.py:31-35)
GetBool(value, default) ==
    IF value = "unset" THEN default
    ELSE StripLower(value) \in {"1", "true", "yes", "on"}

\* AWS stands for any of AWS_PROFILE, AWS_ACCESS_KEY_ID, AWS_ROLE_ARN,
\* AWS_WEB_IDENTITY_TOKEN_FILE being set
Envs ==
    [USE_FIXTURES : FlagValues, OPENAI_API_KEY : BOOLEAN, AWS : BOOLEAN,
     SEC_UA : BOOLEAN, NEWS_TOKEN : BOOLEAN]

\* Settings.load (settings.py:28-52): the settings, or the ValueError it raises
SettingsLoad(e) ==
    IF GetBool(e.USE_FIXTURES, FALSE) THEN Raise("ValueError", <<>>)
    ELSE Ok([loaded |-> TRUE,
             openai_api_key |-> e.OPENAI_API_KEY,
             sec_user_agent |-> e.SEC_UA,
             news_token |-> e.NEWS_TOKEN,
             use_fixtures |-> FALSE],
            <<>>)

\* _create_model (runner.py:20-54)
CreateModel(st, e) ==
    IF st.openai_api_key \/ e.OPENAI_API_KEY THEN Ok("openai", <<>>)
    ELSE IF ~e.AWS THEN Raise("RuntimeError", <<>>)
    ELSE Ok("bedrock", <<>>)

\* the keyword parameters each callable declares, and those without a default
Params(callee) ==
    CASE callee = "ResearchAgent" -> {"settings", "model"}
      [] callee = "build_prices_tool" -> {"use_fixtures", "fixtures_path"}
      [] callee = "build_news_tool" -> {"news_token"}
      [] callee = "build_edgar_tool" -> {"use_fixtures", "fixtures_path", "sec_user_agent"}
      [] callee = "build_ratios_tool" -> {}
      [] callee = "build_peers_tool" -> {"use_fixtures", "fixtures_path"}

Required(callee) ==
    CASE callee = "ResearchAgent" -> {"settings"}
      [] OTHER -> Params(callee)

\* Python binds a call's arguments: TypeError on an unexpected or a missing one
Binds(callee, given) == given \subseteq Params(callee) /\ Required(callee) \subseteq given

\* runner.py:66
RunnerCall == [callee |-> "ResearchAgent", given |-> {"settings", "model", "collect_failures"}]

\* agent.py:60-83, in the order the dict literal evaluates them
InitCalls ==
    <<[callee |-> "build_prices_tool", given |-> {"use_fixtures", "fixtures_path"}],
      [callee |-> "build_news_tool", given |-> {"use_fixtures", "fixtures_path", "news_token"}],
      [callee |-> "build_edgar_tool",
       given |-> {"use_fixtures", "fixtures_path", "sec_user_agent"}],
      [callee |-> "build_ratios_tool", given |-> {"use_fixtures", "fixtures_path"}],
      [callee |-> "build_peers_tool", given |-> {"use_fixtures", "fixtures_path"}]>>

\* ResearchAgent(settings, model=model, collect_failures=collect_failures)
ConstructAgent ==
    IF ~Binds(RunnerCall.callee, RunnerCall.given) THEN "TypeError"
    ELSE IF \E i \in DOMAIN InitCalls : ~Binds(InitCalls[i].callee, InitCalls[i].given)
         THEN "TypeError"
         ELSE "none"

Abort(kind) ==
    /\ raised' = kind
    /\ outcome' = "raised"
    /\ pc' = "done"

\* runner.py:61
RunSettingsLoad ==
    /\ pc = "start"
    /\ LET got == SettingsLoad(env) IN
       IF got.raised # "none"
       THEN Abort(got.raised) /\ settings' = settings
       ELSE /\ settings' = got.payload
            /\ pc' = "dirs"
            /\ UNCHANGED <<raised, outcome>>
    /\ UNCHANGED <<invoked, returned, env, tickers, collect_failures, focus, hosted, idx, canon, cur, ticker_payloads,
                   calls, http, artifacts, model, files>>

\* runner.py:62, settings.py:54-56
RunEnsureDirectories ==
    /\ pc = "dirs"
    /\ files' = files \cup {"fixtures/", "runs/"}
    /\ pc' = "model"
    /\ UNCHANGED <<invoked, returned, env, tickers, collect_failures, focus, hosted, settings, raised, outcome, idx,
                   canon, cur, ticker_payloads, calls, http, artifacts, model>>

\* runner.py:64
RunCreateModel ==
    /\ pc = "model"
    /\ LET got == CreateModel(settings, env) IN
       IF got.raised # "none"
       THEN Abort(got.raised) /\ model' = model
       ELSE /\ model' = got.payload
            /\ pc' = "construct"
            /\ UNCHANGED <<raised, outcome>>
    /\ UNCHANGED <<invoked, returned, env, tickers, collect_failures, focus, hosted, settings, idx, canon, cur,
                   ticker_payloads, calls, http, artifacts, files>>

\* runner.py:66
RunConstructAgent ==
    /\ pc = "construct"
    /\ IF ConstructAgent # "none"
       THEN Abort(ConstructAgent)
       ELSE /\ pc' = "agent_run"
            /\ UNCHANGED <<raised, outcome>>
    /\ UNCHANGED <<invoked, returned, env, tickers, collect_failures, focus, hosted, settings, idx, canon, cur,
                   ticker_payloads, calls, http, artifacts, model, files>>

(***************************************************************************)
(* The specifications.                                                     *)
(***************************************************************************)
Fresh ==
    /\ raised = "none"
    /\ outcome = "running"
    /\ idx = 0
    /\ canon = <<>>
    /\ cur = EmptyLocals
    /\ ticker_payloads = <<>>
    /\ calls = <<>>
    /\ http = <<>>
    /\ artifacts = NoArtifacts
    /\ invoked = NoCall
    /\ returned = NoPayload

FocusValues == {"None", "AI adoption in defense"}

\* a call of runner.run
Init ==
    /\ env \in Envs
    /\ tickers \in Batches
    /\ collect_failures \in BOOLEAN
    /\ focus \in FocusValues
    /\ hosted \in BOOLEAN
    /\ pc = "start"
    /\ settings = NoSettings
    /\ model = "none"
    /\ files = {}
    /\ Fresh

Next ==
    \/ RunSettingsLoad
    \/ RunEnsureDirectories
    \/ RunCreateModel
    \/ RunConstructAgent

Spec == Init /\ [][Next]_vars

\* runner.run at line 68, holding an agent whose tools are built.  Of the
\* environment, the agent reads SEC_UA and NEWS_TOKEN (through its settings);
\* the variables it does not read take one passing value each.
AgentEnvs ==
    {e \in Envs : /\ SettingsLoad(e).raised = "none"
                  /\ CreateModel(SettingsLoad(e).payload, e).raised = "none"
                  /\ e.USE_FIXTURES = "unset"
                  /\ e.OPENAI_API_KEY
                  /\ ~e.AWS}

AgentInit ==
    /\ env \in AgentEnvs
    /\ tickers \in Batches
    /\ collect_failures \in BOOLEAN
    /\ focus \in FocusValues
    /\ hosted \in BOOLEAN
    /\ pc = "agent_run"
    /\ settings = SettingsLoad(env).payload
    /\ model = CreateModel(settings, env).payload
    /\ files = {"fixtures/", "runs/"}
    /\ Fresh

AgentNext ==
    \/ AgentRunStart
    \/ InvokePrices
    \/ InvokeRatios
    \/ InvokeNews
    \/ InvokeEdgar
    \/ InvokePeers
    \/ AssembleRecord
    \/ AgentReturn
    \/ RunnerExcept
    \/ RunnerReturnCollected
    \/ RunnerPersist

AgentSpec == AgentInit /\ [][AgentNext]_vars

(***************************************************************************)
(* The functions of the tools, invoked on their own.                       *)
(***************************************************************************)
MaxBlocks == 3

\* runs of n characters that are not whitespace
X10 == "xxxxxxxxxx"

X100 == X10 \o X10 \o X10 \o X10 \o X10 \o X10 \o X10 \o X10 \o X10 \o X10

X1000 == X100 \o X100 \o X100 \o X100 \o X100 \o X100 \o X100 \o X100 \o X100 \o X100

Long(n) == SubSeq(X1000 \o X1000 \o X1000 \o X1000 \o X1000, 1, n)

\* the blocks a filing document is made of
FilingBlocks ==
    {Blk("bold7", "ITEM 7. MANAGEMENT'S DISCUSSION AND ANALYSIS"),
     Blk("plain7", " Item 7. Management's Discussion ..... 31"),
     Blk("stop", "Item 8. Financial Statements"),
     Blk("blank", " \n\t "),
     Blk("text", "  Net sales\n\n increased   12%.\t"),
     Blk("text", "ab cd"),
     Blk("text", Long(3999)),
     Blk("text", Long(2500) \o " \n " \o Long(2500))}

MaxCloses == 92

\* the points at which a series of closes turns, counted from its end
Turns == {1, 13, 14, 15, 20, 30, 50}

Flat(n) == [i \in 1..n |-> 10000]

Rise(n) == [i \in 1..n |-> 10000 + 7 * i]

Fall(n) == [i \in 1..n |-> 20000 - 7 * i]

Saw(n) == [i \in 1..n |-> 10000 + 11 * (i % 3)]

\* closes that rise up to the point d before the end, then fall
Peak(n, d) ==
    [i \in 1..n |-> IF i <= n - d THEN 10000 + 5 * i
                    ELSE 10000 + 5 * (n - d) - 3 * (i - (n - d))]

\* closes that fall up to the point d before the end, then rise
Valley(n, d) ==
    [i \in 1..n |-> IF i <= n - d THEN 20000 - 5 * i
                    ELSE 20000 - 5 * (n - d) + 3 * (i - (n - d))]

\* series of closes, in hundredths, in ascending date order
CloseSeries ==
    UNION {{Flat(n), Rise(n), Fall(n), Saw(n)}
           \cup {Peak(n, d) : d \in {t \in Turns : t < n}}
           \cup {Valley(n, d) : d \in {t \in Turns : t < n}} : n \in 0..MaxCloses}

\* the payloads handed to RatiosTool.compute: with a history, or without one
PricePayloads == {[history |-> closes] : closes \in CloseSeries} \cup {[ticker |-> "AMZN"]}

MaxFragments == 3

\* the pieces the summaries of the articles are made of
Fragments == {"Strong", "growth", "beat", "risk", "LOSS", "slowdown", "twin", "the"}

\* the summaries: up to MaxFragments pieces, a space between two of them
Summaries == {JoinSpace(f) : f \in UNION {[1..n -> Fragments] : n \in 0..MaxFragments}}

FilingDocs == UNION {[1..n -> FilingBlocks] : n \in 0..MaxBlocks}

\* the state a lone invocation leaves alone
RunState ==
    <<env, tickers, collect_failures, focus, hosted, settings, raised, outcome, idx,
      canon, cur, ticker_payloads, calls, http, artifacts, model, files>>

\* EdgarTool._extract_item7_section(document_html)
ExtractSection ==
    /\ pc = "tools"
    /\ \E doc \in FilingDocs :
          /\ invoked' = [fn |-> "_extract_item7_section", arg |-> doc]
          /\ returned' = Ok(ExtractItem7Section(doc), <<>>)
    /\ pc' = "called"
    /\ UNCHANGED RunState

\* RatiosTool.compute(price_payload)
ComputeRatios ==
    /\ pc = "tools"
    /\ \E price_payload \in PricePayloads :
          /\ invoked' = [fn |-> "compute", arg |-> price_payload]
          /\ returned' = RatiosCompute(price_payload)
    /\ pc' = "called"
    /\ UNCHANGED RunState

\* NewsTool._naive_sentiment(text)
ScoreSentiment ==
    /\ pc = "tools"
    /\ \E text \in Summaries :
          /\ invoked' = [fn |-> "_naive_sentiment", arg |-> text]
          /\ returned' = Ok(NaiveSentiment(text), <<>>)
    /\ pc' = "called"
    /\ UNCHANGED RunState

\* PricesTool.fetch(ticker), the feed answering with `frame`
FetchPrices ==
    /\ pc = "tools"
    /\ \E frame \in CloseSeries :
          /\ invoked' = [fn |-> "fetch", arg |-> [ticker |-> "amzn", frame |-> frame]]
          /\ returned' = PricesFetch("amzn", frame)
    /\ pc' = "called"
    /\ UNCHANGED RunState

MaxContent == 2

JsonDocument == "{\"ticker\": \"AMZN\", \"peers\": [\"MSFT\", 3], \"ticker\": null}"

\* the texts a text block may hold
BlockTexts ==
    {PyStr(JsonDocument), PyStr(" 12 "), PyStr("-40"), PyStr("012"), PyStr("[true, ]"),
     PyStr("[ ]"), PyStr("\"AMZN\""), PyStr("AMZN rallies"), PyStr(""), PyNone}

\* the blocks of a tool result: with a json key, with a text key, with both,
\* with neither, and a block that is no mapping
ContentBlocks ==
    {[json |-> PyInt(7)], [json |-> PyNone], [json |-> PyStr("1"), text |-> PyStr("2")],
     [image |-> PyStr("png")], PyStr("json")}
    \cup {[text |-> t] : t \in BlockTexts}

ToolResults ==
    {[status |-> "success", content |-> c] :
        c \in UNION {[1..n -> ContentBlocks] : n \in 0..MaxContent}}
    \cup {[status |-> "error"]}

\* the values of the keyword `default`
Defaults == {PyNone, PyDict(<<>>), PyStr("n/a")}

\* the payloads a tool wraps
Payloads ==
    {PyNone, PyInt(0), PyBool(FALSE), PyStr("12"), PyStr(JsonDocument), PyList(<<>>),
     PyDict(<<<<"ticker", PyStr("AMZN")>>, <<"peers", PyList(<<PyStr("MSFT")>>)>>>>)}

\* extract_json_content(tool_result, default=default)
ExtractContent ==
    /\ pc = "tools"
    /\ \E tool_result \in ToolResults, default \in Defaults :
          /\ invoked' = [fn |-> "extract_json_content",
                         arg |-> [tool_result |-> tool_result, default |-> default]]
          /\ returned' = ExtractJsonContent(tool_result, default)
    /\ pc' = "called"
    /\ UNCHANGED RunState

\* extract_json_content(json_tool_response(payload), default=default)
WrapAndExtract ==
    /\ pc = "tools"
    /\ \E payload \in Payloads, default \in Defaults :
          /\ invoked' = [fn |-> "json_tool_response",
                         arg |-> [payload |-> payload, default |-> default]]
          /\ returned' = ExtractJsonContent(JsonToolResponse(payload), default)
    /\ pc' = "called"
    /\ UNCHANGED RunState

NoEnv ==
    [USE_FIXTURES |-> "unset", OPENAI_API_KEY |-> FALSE, AWS |-> FALSE,
     SEC_UA |-> FALSE, NEWS_TOKEN |-> FALSE]

\* an interpreter that has imported the tools and runs no batch
ToolInit ==
    /\ env = NoEnv
    /\ tickers = <<>>
    /\ collect_failures = FALSE
    /\ focus = "None"
    /\ hosted = FALSE
    /\ pc = "tools"
    /\ settings = NoSettings
    /\ model = "none"
    /\ files = {}
    /\ Fresh

ToolNext ==
    \/ ExtractSection
    \/ ComputeRatios
    \/ ScoreSentiment
    \/ FetchPrices
    \/ ExtractContent
    \/ WrapAndExtract

ToolSpec == ToolInit /\ [][ToolNext]_vars

(***************************************************************************)
(* Vocabulary of the properties.                                           *)
(***************************************************************************)
\* The Run Failure Log.  ResearchAgent keeps none: its __init__ sets settings,
\* _tool_objects and agent only, and nothing in agent.py records a failure.
FailureLog == <<>>

BriefFiles == {OutputDir \o "brief.json", OutputDir \o "brief.md"}

Raising == {i \in DOMAIN calls : calls[i].raised # "none"}

CallsOf(tool, p) == {i \in DOMAIN calls : calls[i].tool = tool /\ calls[i].pos = p}

\* the batch output: the records of the RunArtifacts value that run returned
Output == IF outcome = "returned" THEN artifacts.json_payload.tickers ELSE <<>>

Complete(rec) ==
    \A k \in {"prices", "ratios", "news", "edgar", "peers"} : rec[k] # NoPayload

(***************************************************************************)
(* C1.  In failure-isolation mode (collect_failures), a batch of three     *)
(* tickers of which only the second's price fetch fails does not raise:    *)
(* the output holds complete records for the first and the third ticker,   *)
(* in that order, none for the second, and the failure log holds exactly   *)
(* one entry, which names the second ticker.                               *)
(***************************************************************************)
OnlySecondPriceFails ==
    /\ Len(tickers) = 3
    /\ CallsOf("prices", 2) # {}
    /\ \A i \in DOMAIN calls :
          calls[i].raised # "none" <=> (calls[i].tool = "prices" /\ calls[i].pos = 2)

C1_IsolatesFailedTicker ==
    (pc = "done" /\ collect_failures /\ OnlySecondPriceFails)
    => /\ outcome = "returned"
       /\ Len(Output) = 2
       /\ Output[1].ticker = canon[1] /\ Complete(Output[1])
       /\ Output[2].ticker = canon[3] /\ Complete(Output[2])
       /\ Len(FailureLog) = 1
       /\ FailureLog[1].ticker = canon[2]

SourcesUnavailable ==
    /\ Len(tickers) = 1
    /\ \E i \in CallsOf("prices", 1) : calls[i].raised = "none"
    /\ CallsOf("news", 1) \cup CallsOf("edgar", 1) # {}
    /\ Raising = CallsOf("news", 1) \cup CallsOf("edgar", 1)

C3_DegradedRecordReturned ==
    (pc = "done" /\ collect_failures /\ SourcesUnavailable)
    => /\ outcome = "returned"
       /\ Len(Output) = 1
       /\ Output[1].ticker = canon[1]
       /\ Output[1].prices.latest_close
             = Output[1].prices.history[Len(Output[1].prices.history)]
       /\ Output[1].ratios.latest_close = Output[1].prices.latest_close
       /\ Output[1].peers.peers = PeerMap(canon[1])
       /\ Len(FailureLog) = 2

(***************************************************************************)
(* C4.  In failure-isolation mode the run completes the batch (every       *)
(* requested ticker has its tools invoked); at the end a non-empty failure *)
(* log is reported and the process exits non-zero (SystemExit), which      *)
(* happens only when the log is non-empty; with an empty log the run       *)
(* returns normally.                                                       *)
(***************************************************************************)
BatchCompleted ==
    \A p \in DOMAIN tickers :
        \A tool \in {"prices", "ratios", "news", "edgar", "peers"} :
            tool = "ratios" \/ CallsOf(tool, p) # {}

C4_IsolationCompletesBatch ==
    (pc = "done" /\ collect_failures)
    => /\ BatchCompleted
       /\ FailureLog # <<>> => raised = "SystemExit"
       /\ outcome = "raised" => FailureLog # <<>>
       /\ FailureLog = <<>> => outcome = "returned"

(***************************************************************************)
(* C5.  Every outbound request of a fetcher is attempted at most 3 times:  *)
(* an attempt is repeated only after a transient answer (429, 5xx or a     *)
(* transport error), a transient answer on an attempt that is not the      *)
(* third is followed by another attempt, and a non-transient answer ends   *)
(* the request at once.                                                    *)
(***************************************************************************)
\* the attempts the latest tool invocation made at one url, in order
Attempts(url) == SelectSeq(http, LAMBDA r : r.url = url)

C5_BoundedRetry ==
    \A url \in {http[i].url : i \in DOMAIN http} :
        LET a == Attempts(url) IN
        /\ Len(a) <= 3
        /\ \A k \in 1..(Len(a) - 1) : Transient(a[k].status)
        /\ Transient(a[Len(a)].status) => Len(a) = 3

SectionNames == {"overview", "moat", "performance", "catalysts", "risks", "valuation"}

C9_FixtureRunWritesBrief ==
    (pc = "done" /\ env.USE_FIXTURES = "1" /\ Len(tickers) = 1)
    => /\ outcome = "returned"
       /\ BriefFiles \subseteq files
       /\ Output[1].ticker = Upper(tickers[1])
       /\ \A k \in SectionNames : Output[1].sections[k] # ""

(***************************************************************************)
(* C10.  When the target section cannot be located in the filing, the      *)
(* filing fetch does not raise: it returns the filing's metadata with an   *)
(* empty section text and a separate, non-empty error string.              *)
(***************************************************************************)
\* the latest call is a filing fetch whose document has no Item 7 heading
SectionNotLocated ==
    /\ calls # <<>>
    /\ calls[Len(calls)].tool = "edgar"
    /\ Len(http) = 3
    /\ http[3].status = "200"
    /\ \A i \in DOMAIN http[3].body : http[3].body[i].kind \notin {"bold7", "plain7"}

C10_EmptySectionWithError ==
    SectionNotLocated
    => LET got == calls[Len(calls)] IN
       /\ got.raised = "none"
       /\ got.payload.source_url = DocumentUrl
       /\ got.payload.filed_on = "2024-02-02"
       /\ got.payload.filing_type = "10-K"
       /\ got.payload.section = ""
       /\ Get(got.payload, "error", "") # ""

(***************************************************************************)
(* C11.  The section extractor tries its heading heuristics in priority    *)
(* order: when no bold or uppercase Item 7. heading exists but some Item   *)
(* 7. text does, the result is the section found from that text and not    *)
(* the not-found outcome; the not-found outcome is produced only when no   *)
(* heuristic matched.                                                      *)
(***************************************************************************)
Extracted == invoked.fn = "_extract_item7_section"

BoldMatches(doc) == {i \in DOMAIN doc : doc[i].kind = "bold7"}

AnyMatches(doc) == {i \in DOMAIN doc : doc[i].kind \in {"bold7", "plain7"}}

C11_NotFoundOnlyWithoutMatch ==
    Extracted
    => /\ (BoldMatches(invoked.arg) = {} /\ AnyMatches(invoked.arg) # {})
          => returned.payload # Unable
       /\ returned.payload = Unable => AnyMatches(invoked.arg) = {}

(***************************************************************************)
(* C12.  For every filing document the section text the extractor returns  *)
(* is at most 4000 characters long, holds no two whitespace characters in  *)
(* a row, and neither starts nor ends with a whitespace character.         *)
(***************************************************************************)
C12_SectionCappedAndNormalized ==
    Extracted
    => LET text == returned.payload IN
       /\ returned.raised = "none"
       /\ Len(text) <= 4000
       /\ \A i \in 1..(Len(text) - 1) : ~(IsSpace(Ch(text, i)) /\ IsSpace(Ch(text, i + 1)))
       /\ text # "" => ~IsSpace(Ch(text, 1)) /\ ~IsSpace(Ch(text, Len(text)))

\* the joined chunks are 4005 characters long and the cut at 4000 falls
\* right after the space that joins them
C12_Witness ==
    /\ Extracted
    /\ invoked.arg = <<Blk("bold7", "ITEM 7. MANAGEMENT'S DISCUSSION AND ANALYSIS"),
                       Blk("text", Long(3999)),
                       Blk("text", "ab cd")>>
    /\ returned.payload = Long(3999)

(***************************************************************************)
(* C13.  For every close series and each k in {20, 50}, the reported       *)
(* simple moving average is the arithmetic mean of exactly the last k      *)
(* closes when the series has at least k points, the mean of all points    *)
(* when it has fewer, and 0.0 when the series is empty.                    *)
(***************************************************************************)
Computed == invoked.fn = "compute"

\* the closes the payload handed to compute holds
GivenCloses == IF "history" \in DOMAIN invoked.arg THEN invoked.arg.history ELSE <<>>

\* the last k points of a series, or all of them when there are fewer
Trailing(closes, k) ==
    LET m == IF Len(closes) < k THEN Len(closes) ELSE k
    IN  [i \in 1..m |-> closes[Len(closes) - m + i]]

Abs(x) == IF x < 0 THEN 0 - x ELSE x

\* v is the exact arithmetic mean of the points
IsMean(v, points) ==
    IF points = <<>> THEN v = 0 ELSE v * Len(points) = SumSeq(points)

\* v is the hundredth nearest to the arithmetic mean of the points
IsRoundedMean(v, points) ==
    IF points = <<>> THEN v = 0
    ELSE 2 * Abs(v * Len(points) - SumSeq(points)) <= Len(points)

\* the claim as stated
C13_SmaIsMeanOfWindow ==
    Computed
    => /\ IsMean(returned.payload.sma20, Trailing(GivenCloses, 20))
       /\ IsMean(returned.payload.sma50, Trailing(GivenCloses, 50))

\* the claim as amended: the mean rounded to two decimals
C13_SmaIsRoundedMeanOfWindow ==
    Computed
    => /\ returned.raised = "none"
       /\ IsRoundedMean(returned.payload.sma20, Trailing(GivenCloses, 20))
       /\ IsRoundedMean(returned.payload.sma50, Trailing(GivenCloses, 50))

\* more than 50 closes, with three different means: of the last 20, of the
\* last 50 and of all
C13_Witness ==
    /\ Computed
    /\ Len(GivenCloses) > 50
    /\ returned.payload.sma20 # returned.payload.sma50
    /\ ~IsRoundedMean(returned.payload.sma50, GivenCloses)
    /\ ~IsRoundedMean(returned.payload.sma20, Trailing(GivenCloses, 50))

(***************************************************************************)
(* C14.  For every close series of at least 15 points whose last 14        *)
(* day-over-day changes are all gains, rsi is exactly 100.0; when they are *)
(* all losses, rsi is exactly 0.0.                                         *)
(***************************************************************************)
\* the last 14 day-over-day changes of the series
LastChanges(closes) ==
    [i \in 1..14 |-> closes[Len(closes) - 14 + i] - closes[Len(closes) - 15 + i]]

C14_RsiAtTheExtremes ==
    (Computed /\ Len(GivenCloses) >= 15)
    => /\ (\A i \in 1..14 : LastChanges(GivenCloses)[i] > 0)
          => returned.payload.rsi14 = 10000
       /\ (\A i \in 1..14 : LastChanges(GivenCloses)[i] < 0)
          => returned.payload.rsi14 = 0

\* the series rose before its last 14 changes, which are all losses
C14_Witness ==
    /\ Computed
    /\ Len(GivenCloses) >= 17
    /\ GivenCloses[2] > GivenCloses[1]
    /\ \A i \in 1..14 : LastChanges(GivenCloses)[i] < 0
    /\ returned.payload.rsi14 = 0

(***************************************************************************)
(* C15.  For every close series of fewer than 15 points, the empty series  *)
(* included, rsi is exactly the neutral 50.0 and nothing is raised.        *)
(***************************************************************************)
C15_RsiNeutralWhenShort ==
    (Computed /\ Len(GivenCloses) < 15)
    => /\ returned.raised = "none"
       /\ returned.payload.rsi14 = 5000

\* 14 closes, every change a gain
C15_Witness ==
    /\ Computed
    /\ Len(GivenCloses) = 14
    /\ \A i \in 1..13 : GivenCloses[i + 1] > GivenCloses[i]
    /\ returned.payload.rsi14 = 5000

(***************************************************************************)
(* C16.  For every article summary, with p the number of positive words    *)
(* and n the number of negative words it contains, whatever their case,    *)
(* the sentiment score is 0.0 when p = n and (p - n) / (p + n) rounded to  *)
(* 2 decimals otherwise; every score lies in [-1, 1].                      *)
(***************************************************************************)
Scored == invoked.fn = "_naive_sentiment"

\* the places of the text at which the word stands, whatever the case
Occurrences(text, word) ==
    {i \in 1..Len(text) :
        /\ i + Len(word) - 1 <= Len(text)
        /\ \A k \in 1..Len(word) :
              LowerChar(SubSeq(text, i + k - 1, i + k - 1)) = SubSeq(word, k, k)}

\* how many words of the list the text contains
Contained(text, words) ==
    SumSeq([k \in DOMAIN words |-> Cardinality(Occurrences(text, words[k]))])

C16_SentimentFormula ==
    Scored
    => LET p == Contained(invoked.arg, <<"growth", "beat", "win", "strong">>)
           n == Contained(invoked.arg, <<"risk", "concern", "loss", "slow">>)
           score == returned.payload
       IN  /\ returned.raised = "none"
           /\ p = n => score = 0
           /\ p # n => 2 * Abs(score * (p + n) - 100 * (p - n)) <= p + n
           /\ (p = 2 /\ n = 0) => score = 100
           /\ -100 <= score /\ score <= 100

\* two positive words and one negative, in three different cases
C16_Witness ==
    /\ Scored
    /\ invoked.arg = "Strong LOSS growth"
    /\ returned.payload = 33

(***************************************************************************)
(* C17.  For every non-empty close series a successful price fetch         *)
(* returns, the summary has high = the maximum close, low = the minimum    *)
(* close, latest close = the last close, and the 30-day average close is   *)
(* the mean of the last 30 closes when there are at least 30 and the       *)
(* latest close otherwise; a short series does not make the fetch fail.    *)
(***************************************************************************)
Fetched == invoked.fn = "fetch"

\* v is the greatest (least) of the points
IsMax(v, points) ==
    (\E i \in DOMAIN points : points[i] = v) /\ \A i \in DOMAIN points : points[i] <= v

IsMin(v, points) ==
    (\E i \in DOMAIN points : points[i] = v) /\ \A i \in DOMAIN points : v <= points[i]

\* the parts of the claim that do not concern the average
SummaryOfSeries(p) ==
    /\ p.history # <<>>
    /\ IsMax(p.fifty_two_week_high, p.history)
    /\ IsMin(p.fifty_two_week_low, p.history)
    /\ p.latest_close = p.history[Len(p.history)]
    /\ Len(p.history) < 30 => p.avg_close_30d = p.latest_close

\* the claim as stated
C17_PriceSummary ==
    Fetched
    => /\ invoked.arg.frame # <<>> => returned.raised = "none"
       /\ returned.raised = "none"
          => /\ SummaryOfSeries(returned.payload)
             /\ Len(returned.payload.history) >= 30
                => IsMean(returned.payload.avg_close_30d,
                          Trailing(returned.payload.history, 30))

\* the claim as amended: the mean rounded to two decimals
C17_PriceSummaryRounded ==
    Fetched
    => /\ invoked.arg.frame # <<>> => returned.raised = "none"
       /\ returned.raised = "none"
          => /\ SummaryOfSeries(returned.payload)
             /\ Len(returned.payload.history) >= 30
                => IsRoundedMean(returned.payload.avg_close_30d,
                                 Trailing(returned.payload.history, 30))

\* more than 30 closes whose high is neither the first nor the last, and an
\* average that is neither the latest close nor the mean of them all
C17_Witness ==
    /\ Fetched
    /\ returned.raised = "none"
    /\ Len(returned.payload.history) > 30
    /\ returned.payload.fifty_two_week_high # returned.payload.latest_close
    /\ returned.payload.fifty_two_week_high # returned.payload.history[1]
    /\ returned.payload.avg_close_30d # returned.payload.latest_close
    /\ ~IsRoundedMean(returned.payload.avg_close_30d, returned.payload.history)

(***************************************************************************)
(* C18.  When the price feed returns an empty series, the price fetch      *)
(* fails with the dedicated NoDataError kind and returns no payload; a     *)
(* successful price fetch never returns an empty history.                  *)
(***************************************************************************)
C18_NoDataError ==
    Fetched
    => /\ invoked.arg.frame = <<>>
          => returned.raised = "NoDataError" /\ returned.payload = NoPayload
       /\ returned.raised = "none" => returned.payload.history # <<>>

ResolvedBefore ==
    /\ calls # <<>>
    /\ calls[Len(calls)].tool = "edgar"
    /\ \E j \in 1..(Len(calls) - 1) :
          /\ calls[j].tool = "edgar"
          /\ calls[j].arg = calls[Len(calls)].arg
          /\ calls[j].raised = "none"

C20_SecondResolveUsesCache ==
    ResolvedBefore => \A i \in DOMAIN http : http[i].url # FeedUrl

(***************************************************************************)
(* C21.  On the run path every call passes only keyword arguments its      *)
(* callee accepts and the attributes runner.run reads from the agent       *)
(* exist: once Settings.load and _create_model have returned, the          *)
(* construction of ResearchAgent returns too and the run stands before     *)
(* agent.run, with nothing raised.                                         *)
(***************************************************************************)
C21_RunPathCallsBind ==
    (model # "none" /\ pc # "construct")
    => /\ pc = "agent_run"
       /\ raised = "none"
       /\ outcome = "running"
       /\ {"failures", "failure_report"} \subseteq AgentAttributes

(***************************************************************************)
(* C22.  For every payload p, extract_json_content(json_tool_response(p))  *)
(* is p.  In general the first content block with a json or a text key     *)
(* decides the result: the value under json, or the text JSON-decoded, or  *)
(* the text as it is when it is no valid JSON; with no such block the      *)
(* result is the default when that is not None, and ValueError is raised   *)
(* otherwise.                                                              *)
(***************************************************************************)
Wrapped == invoked.fn = "json_tool_response"

Extracting == invoked.fn = "extract_json_content"

\* the blocks of the tool result that carry a json or a text key
Deciding(content) ==
    {i \in DOMAIN content : "json" \in DOMAIN content[i] \/ "text" \in DOMAIN content[i]}

\* what the texts that are valid JSON stand for; any other text stands for itself
Decoded(text) ==
    CASE text = PyStr(JsonDocument)
            -> PyDict(<<<<"ticker", PyNone>>,
                        <<"peers", PyList(<<PyStr("MSFT"), PyInt(3)>>)>>>>)
      [] text = PyStr(" 12 ") -> PyInt(12)
      [] text = PyStr("-40") -> PyInt(-40)
      [] text = PyStr("[ ]") -> PyList(<<>>)
      [] text = PyStr("\"AMZN\"") -> PyStr("AMZN")
      [] text = PyStr("2") -> PyInt(2)
      [] OTHER -> text

C22_ExtractReturnsWhatWasWrapped ==
    /\ Wrapped => returned.raised = "none" /\ returned.payload = invoked.arg.payload
    /\ Extracting
       => LET content == IF "content" \in DOMAIN invoked.arg.tool_result
                         THEN invoked.arg.tool_result.content ELSE <<>>
              default == invoked.arg.default
          IN  \/ /\ Deciding(content) = {}
                 /\ default = PyNone
                 /\ returned.raised = "ValueError"
              \/ /\ Deciding(content) = {}
                 /\ default # PyNone
                 /\ returned.raised = "none" /\ returned.payload = default
              \/ \E i \in Deciding(content) :
                    /\ \A j \in Deciding(content) : i <= j
                    /\ returned.raised = "none"
                    /\ returned.payload = IF "json" \in DOMAIN content[i]
                                          THEN content[i].json
                                          ELSE Decoded(content[i].text)

\* a block without either key is passed over and the text block after it is
\* decoded to a dict, whatever the default
C22_Witness ==
    /\ Extracting
    /\ "content" \in DOMAIN invoked.arg.tool_result
    /\ invoked.arg.tool_result.content = <<[image |-> PyStr("png")], [text |-> PyStr(JsonDocument)]>>
    /\ invoked.arg.default = PyStr("n/a")
    /\ returned.payload.kind = "dict"
    /\ Len(returned.payload.val) = 2

====
